---- MODULE Spec2Model ----
(***************************************************************************)
(* A model of the blackjack engine of blackjackrs: the card model, Deck    *)
(* and Shoe construction, the card-counting tracker inside                 *)
(* Shoe::take_card, Hand valuation, and the round loop of main.rs          *)
(* (play_shoe / play_round / player_turn / dealer_turn).                   *)
(*                                                                         *)
(* Three specifications share the variables:                               *)
(*   Spec      main(): Shoe::new, shuffle, then the rounds of play_shoe    *)
(*   SpecHand  a Hand built card by card, then valued (calc_value,         *)
(*             is_blackjack)                                               *)
(*   SpecShoe  a Shoe built by Shoe::new, drawn from and shuffled          *)
(***************************************************************************)
EXTENDS Integers, Sequences, FiniteSets, Bags, TLC

VARIABLES
    deck_count,        \* BlackJack.deck_count (command line, u32)
    reshuffle_limit,   \* GameConfig.reshuffle_limit (command line, u32)
    shoe,              \* Shoe {cards, running_count, true_count}
    player_hand,       \* player.hand.cards
    dealer_hand,       \* dealer_hand.cards, local of play_round
    dealer_face_down,  \* local of play_round: <<>> or <<card>> until it is moved
    choice,            \* local of player_turn: the line last read
    outcome,           \* the result line play_round printed for this round
    pc,                \* position of main / play_shoe / play_round
    hand,              \* SpecHand: Hand.cards under construction
    result,            \* SpecHand: what calc_value and is_blackjack returned
    taken,             \* SpecShoe: what the last take_card handed to its caller
    round_start        \* history: shoe.cards as play_round found them

vars == <<deck_count, reshuffle_limit, shoe, player_hand, dealer_hand,
          dealer_face_down, choice, outcome, pc, hand, result, taken,
          round_start>>

gameVars == <<deck_count, reshuffle_limit, player_hand, dealer_hand,
              dealer_face_down, choice, outcome, round_start>>

(***************************************************************************)
(* Bounds of the model                                                     *)
(***************************************************************************)
\* deck_count ranges over 0..MaxDecks
MaxDecks == 2
\* the shuffle of main() may put any TopLen cards of ShuffleValues on top
TopLen == 4
\* a Hand of SpecHand holds at most MaxHandLen cards
MaxHandLen == 5
\* SpecShoe calls take_card at most MaxShoeDraws times
MaxShoeDraws == 5
\* SpecShoe calls shuffle at most MaxShuffles times
MaxShuffles == 1
\* a shuffle of SpecShoe may put any ShoeTopLen cards of ShuffleValues on top
ShoeTopLen == 1

(***************************************************************************)
(* Constants of the program                                                *)
(***************************************************************************)
TWENTY_ONE == 21
DECK_SIZE == 52
ACE_HIGH_VAL == 11
ACE_LOW_VAL == 1
DEALER_STAND == 17
DEFAULT_RESHUFFLE_LIMIT == 52
DEFAULT_DECK_COUNT == 6

(***************************************************************************)
(* Helpers on sequences                                                    *)
(***************************************************************************)
RECURSIVE SumSeq(_)
SumSeq(s) == IF s = <<>> THEN 0 ELSE Head(s) + SumSeq(Tail(s))

RECURSIVE Flatten(_)
Flatten(ss) == IF ss = <<>> THEN <<>> ELSE Head(ss) \o Flatten(Tail(ss))

\* the bag (multiset) of the elements of a sequence
BagOfSeq(s) ==
    [c \in {s[i] : i \in DOMAIN s} |-> Cardinality({i \in DOMAIN s : s[i] = c})]

RemoveAt(s, i) == SubSeq(s, 1, i - 1) \o SubSeq(s, i + 1, Len(s))

Max(S) == CHOOSE x \in S : \A y \in S : y <= x

(***************************************************************************)
(* Card model (types.rs)                                                   *)
(***************************************************************************)
\* impl TryFrom<u32> for Value: Ok(value) or Err(InvalidCardVal)
ValueTryFrom(v) ==
    CASE v = 1 -> [ok |-> TRUE, value |-> "Ace"]
      [] v = 2 -> [ok |-> TRUE, value |-> "Two"]
      [] v = 3 -> [ok |-> TRUE, value |-> "Three"]
      [] v = 4 -> [ok |-> TRUE, value |-> "Four"]
      [] v = 5 -> [ok |-> TRUE, value |-> "Five"]
      [] v = 6 -> [ok |-> TRUE, value |-> "Six"]
      [] v = 7 -> [ok |-> TRUE, value |-> "Seven"]
      [] v = 8 -> [ok |-> TRUE, value |-> "Eight"]
      [] v = 9 -> [ok |-> TRUE, value |-> "Nine"]
      [] v = 10 -> [ok |-> TRUE, value |-> "Ten"]
      [] v = 11 -> [ok |-> TRUE, value |-> "Jack"]
      [] v = 12 -> [ok |-> TRUE, value |-> "Queen"]
      [] v = 13 -> [ok |-> TRUE, value |-> "King"]
      [] v = 14 -> [ok |-> TRUE, value |-> "Ace"]
      [] OTHER -> [ok |-> FALSE, value |-> "InvalidCardVal"]

\* Value::value
value(v) ==
    CASE v = "Two" -> 2
      [] v = "Three" -> 3
      [] v = "Four" -> 4
      [] v = "Five" -> 5
      [] v = "Six" -> 6
      [] v = "Seven" -> 7
      [] v = "Eight" -> 8
      [] v = "Nine" -> 9
      [] v = "Ten" -> 10
      [] v = "Jack" -> 10
      [] v = "Queen" -> 10
      [] v = "King" -> 10
      [] v = "Ace" -> 11

\* enum Suit, in the order Deck::new lists it
all_suites == <<"Spades", "Hearts", "Diamonds", "Clubs">>

Card(s, v) == [suit |-> s, value |-> v]

(***************************************************************************)
(* Hand (types.rs)                                                         *)
(***************************************************************************)
\* Hand::calc_value, the loop `for n in 0..=aces` from its n-th iteration on
RECURSIVE calc_value_loop(_, _, _)
calc_value_loop(val_without_aces, aces, n) ==
    LET num_aces == aces - n
        val == val_without_aces + (num_aces * ACE_HIGH_VAL) + (n * ACE_LOW_VAL)
    IN  IF val <= TWENTY_ONE THEN val
        ELSE IF n = aces THEN val
        ELSE calc_value_loop(val_without_aces, aces, n + 1)

\* the mutant of calc_value: the loop counts the aces up from all-low
RECURSIVE calc_value_low_first(_, _, _)
calc_value_low_first(val_without_aces, aces, n) ==
    LET val == val_without_aces + (n * ACE_HIGH_VAL) + ((aces - n) * ACE_LOW_VAL)
    IN  IF val <= TWENTY_ONE THEN val
        ELSE IF n = aces THEN val
        ELSE calc_value_low_first(val_without_aces, aces, n + 1)

calc_value_mutant(cards) ==
    LET aces == Cardinality({i \in DOMAIN cards : cards[i].value = "Ace"})
        val_without_aces ==
            SumSeq([i \in DOMAIN cards |->
                      IF cards[i].value # "Ace" THEN value(cards[i].value) ELSE 0])
    IN  calc_value_low_first(val_without_aces, aces, 0)

\* Hand::calc_value (u32 arithmetic: no hand of the model comes near 2^32)
calc_value(cards) ==
    LET aces == Cardinality({i \in DOMAIN cards : cards[i].value = "Ace"})
        val_without_aces ==
            SumSeq([i \in DOMAIN cards |->
                      IF cards[i].value # "Ace" THEN value(cards[i].value) ELSE 0])
    IN  calc_value_loop(val_without_aces, aces, 0)

\* Hand::from_card
from_card(card) == <<card>>

\* the mutant of add_card: the card goes to the front of the Vec
add_card_front(cards, card) == <<card>> \o cards

\* the mutant of add_card: the card overwrites the last one of a hand of
\* three or more
add_card_overwrite(cards, card) ==
    IF Len(cards) >= 3 THEN SubSeq(cards, 1, Len(cards) - 1) \o <<card>>
    ELSE Append(cards, card)

\* Hand::add_card
add_card(cards, card) == Append(cards, card)

\* the mutant of is_blackjack: the card count is not looked at
is_blackjack_mutant(cards) ==
    LET num_aces == Cardinality({i \in DOMAIN cards : cards[i].value = "Ace"})
    IN  num_aces = 1 /\ calc_value(cards) = TWENTY_ONE

\* Hand::is_blackjack
is_blackjack(cards) ==
    LET num_aces == Cardinality({i \in DOMAIN cards : cards[i].value = "Ace"})
    IN  num_aces = 1 /\ Len(cards) = 2 /\ calc_value(cards) = TWENTY_ONE

(***************************************************************************)
(* f32 values of Shoe.true_count.  A finite value is the reduced fraction  *)
(* num/den (the quotients of the model, small integers over at most a few  *)
(* decks, round to distinct f32 values); a division by 0.0 gives NaN or an *)
(* infinity, as IEEE 754 has it.                                           *)
(***************************************************************************)
RECURSIVE GCD(_, _)
GCD(a, b) == IF b = 0 THEN a ELSE GCD(b, a % b)

Abs(x) == IF x < 0 THEN -x ELSE x

F32(n) == [class |-> "finite", num |-> n, den |-> 1]

\* `a as f32 / b` for integers a, b >= 0 converted to f32
F32Div(a, b) ==
    IF b = 0
    THEN [class |-> IF a = 0 THEN "NaN" ELSE IF a > 0 THEN "inf" ELSE "-inf",
          num |-> 0, den |-> 0]
    ELSE LET g == GCD(Abs(a), b)
         IN  [class |-> "finite", num |-> a \div g, den |-> b \div g]

(***************************************************************************)
(* Deck and Shoe (types.rs)                                                *)
(***************************************************************************)
\* the mutant of Deck::new: the values of 2..14, the ace left out
Deck_new_mutant ==
    LET all_values == [v \in 1..12 |-> ValueTryFrom(v + 1).value]
    IN  [ok |-> TRUE,
         cards |-> Flatten([s \in 1..Len(all_suites) |->
                      [v \in 1..12 |-> Card(all_suites[s], all_values[v])]])]

\* Deck::new: Ok(cards) of 4 suits times the values of 2..=14, or the Err
\* of the first failing Value::try_from
Deck_new ==
    LET tried == [v \in 1..13 |-> ValueTryFrom(v + 1)]
        all_values == [v \in 1..13 |-> tried[v].value]
    IN  IF \E v \in 1..13 : ~tried[v].ok
        THEN [ok |-> FALSE, cards |-> <<>>]
        ELSE [ok |-> TRUE,
              cards |-> Flatten([s \in 1..Len(all_suites) |->
                           [v \in 1..13 |-> Card(all_suites[s], all_values[v])]])]

\* Shoe::new: Ok(shoe) or the Err of Deck::new
Shoe_new(num_decks) ==
    IF num_decks > 0 /\ ~Deck_new.ok
    THEN [ok |-> FALSE, shoe |-> [cards |-> <<>>, running_count |-> 0,
                                  true_count |-> F32(0)]]
    ELSE [ok |-> TRUE,
          shoe |-> [cards |-> Flatten([d \in 1..num_decks |-> Deck_new.cards]),
                    running_count |-> 0,
                    true_count |-> F32(0)]]

\* Shoe::num_cards
num_cards(s) == Len(s.cards)

\* the mutant of take_card: the decks left are counted before the pop
take_card_decks_before(s) ==
    IF Len(s.cards) = 0
    THEN [panic |-> TRUE, shoe |-> s, card |-> <<>>]
    ELSE LET card == s.cards[Len(s.cards)]
             rest == SubSeq(s.cards, 1, Len(s.cards) - 1)
             card_val == value(card.value)
             count_change == IF card_val <= 6 THEN 1
                             ELSE IF card_val >= 10 THEN -1
                             ELSE 0
             running_count == s.running_count + count_change
             remaining_decks == Len(s.cards) \div DECK_SIZE
         IN  [panic |-> FALSE,
              shoe |-> [cards |-> rest,
                        running_count |-> running_count,
                        true_count |-> F32Div(running_count, remaining_decks)],
              card |-> <<card>>]

\* the mutant of take_card: an ace (value 11) is not counted as a high card
take_card_mutant(s) ==
    IF Len(s.cards) = 0
    THEN [panic |-> TRUE, shoe |-> s, card |-> <<>>]
    ELSE LET card == s.cards[Len(s.cards)]
             rest == SubSeq(s.cards, 1, Len(s.cards) - 1)
             card_val == value(card.value)
             count_change == IF card_val <= 6 THEN 1
                             ELSE IF card_val = 10 THEN -1
                             ELSE 0
             running_count == s.running_count + count_change
             remaining_decks == Len(rest) \div DECK_SIZE
         IN  [panic |-> FALSE,
              shoe |-> [cards |-> rest,
                        running_count |-> running_count,
                        true_count |-> F32Div(running_count, remaining_decks)],
              card |-> <<card>>]

\* Shoe::take_card: the shoe after the call and the card returned, or the
\* panic of expect("Out of cards!") with the shoe as it was
take_card(s) ==
    IF Len(s.cards) = 0
    THEN [panic |-> TRUE, shoe |-> s, card |-> <<>>]
    ELSE LET card == s.cards[Len(s.cards)]
             rest == SubSeq(s.cards, 1, Len(s.cards) - 1)
             card_val == value(card.value)
             count_change == IF card_val <= 6 THEN 1
                             ELSE IF card_val >= 10 THEN -1
                             ELSE 0
             running_count == s.running_count + count_change
             remaining_decks == Len(rest) \div DECK_SIZE
         IN  [panic |-> FALSE,
              shoe |-> [cards |-> rest,
                        running_count |-> running_count,
                        true_count |-> F32Div(running_count, remaining_decks)],
              card |-> <<card>>]

\* the mutant of shuffle: the running count survives the shuffle
shuffle_mutant(s, new_cards) ==
    [cards |-> new_cards, running_count |-> s.running_count,
     true_count |-> F32(0)]

\* Shoe::shuffle, new_cards being the order the rng gave self.cards
shuffle(s, new_cards) ==
    [cards |-> new_cards, running_count |-> 0, true_count |-> F32(0)]

(***************************************************************************)
(* The orders SliceRandom::shuffle may give a card sequence.  Every        *)
(* permutation is possible; the model draws from a bounded family of them: *)
(* the cards unmoved, or a choice of cards brought to the draw end (the    *)
(* end of the Vec, where take_card pops) with the others kept in order.    *)
(***************************************************************************)
\* the values the shuffle may bring to the top
ShuffleValues == {"Two", "Five", "Six", "Seven", "King", "Ace"}

\* the sequences of exactly n values of ShuffleValues
TopSeqs(n) == [1..n -> ShuffleValues]

\* the lowest index of a card of value v in cards, 0 if there is none
FirstOf(cards, v) ==
    LET idx == {i \in DOMAIN cards : cards[i].value = v}
    IN  IF idx = {} THEN 0 ELSE CHOOSE i \in idx : \A j \in idx : i <= j

\* one card of each value of top picked in turn (the first such card still
\* in cards), and the cards left over in their order; not ok when cards
\* lacks one of them
RECURSIVE PickTop(_, _)
PickTop(cards, top) ==
    IF top = <<>> THEN [ok |-> TRUE, rest |-> cards, picked |-> <<>>]
    ELSE LET i == FirstOf(cards, Head(top))
         IN  IF i = 0 THEN [ok |-> FALSE, rest |-> <<>>, picked |-> <<>>]
             ELSE LET r == PickTop(RemoveAt(cards, i), Tail(top))
                  IN  [ok |-> r.ok, rest |-> r.rest,
                       picked |-> <<cards[i]>> \o r.picked]

Reverse(s) == [i \in DOMAIN s |-> s[Len(s) + 1 - i]]

\* the orders of the family: cards unmoved, or n picked cards at the draw
\* end so that the first picked is the first drawn
ShuffleOutcomes(cards, n) ==
    {cards} \cup
    {PickTop(cards, top).rest \o Reverse(PickTop(cards, top).picked) :
        top \in {t \in TopSeqs(n) : PickTop(cards, t).ok}}

(***************************************************************************)
(* Spec: main.rs                                                           *)
(***************************************************************************)
\* the values of --reshuffle-limit the model runs with
ReshuffleLimits == {0, DEFAULT_RESHUFFLE_LIMIT}

\* the lines stdin may give player_turn: text, and whether a newline ends it
Lines == {[text |-> "h", nl |-> TRUE], [text |-> "s", nl |-> TRUE],
          [text |-> "x", nl |-> TRUE], [text |-> "", nl |-> FALSE]}

\* Player::new_hand: the player starts the round with an empty hand
new_hand == <<>>

\* SpecHand and SpecShoe before their first step; they do not move in Spec
idleHand == hand = <<>> /\ result = [done |-> FALSE, value |-> 0, blackjack |-> FALSE]
idleTaken == taken = [calls |-> 0, shuffles |-> 0, panic |-> FALSE, card |-> <<>>]

\* main() before it starts; it does not move in SpecHand and SpecShoe
idleGame ==
    /\ reshuffle_limit = DEFAULT_RESHUFFLE_LIMIT
    /\ player_hand = <<>>
    /\ dealer_hand = <<>>
    /\ dealer_face_down = <<>>
    /\ choice = ""
    /\ outcome = "None"
    /\ round_start = <<>>

\* main up to the call of shuffle: the arguments parsed, Shoe::new called
Init ==
    /\ deck_count \in 0..MaxDecks
    /\ reshuffle_limit \in ReshuffleLimits
    /\ shoe = Shoe_new(deck_count).shoe
    /\ pc = IF Shoe_new(deck_count).ok THEN "shuffle" ELSE "panic_create_shoe"
    /\ player_hand = <<>>
    /\ dealer_hand = <<>>
    /\ dealer_face_down = <<>>
    /\ choice = ""
    /\ outcome = "None"
    /\ round_start = <<>>
    /\ idleHand
    /\ idleTaken

\* main: the shoe shuffled, play_shoe entered
Shuffle ==
    /\ pc = "shuffle"
    /\ \E new_cards \in ShuffleOutcomes(shoe.cards, TopLen) :
          shoe' = shuffle(shoe, new_cards)
    /\ pc' = "place_bets"
    /\ UNCHANGED <<gameVars, hand, result, taken>>

\* play_shoe: place_bets returns with a bet placed
PlaceBets ==
    /\ pc = "place_bets"
    /\ outcome' = "None"
    /\ round_start' = shoe.cards
    /\ pc' = "deal_dealer"
    /\ UNCHANGED <<deck_count, reshuffle_limit, shoe, player_hand, dealer_hand,
                   dealer_face_down, choice, hand, result, taken>>

\* play_round: let mut dealer_hand = Hand::from_card(shoe.take_card())
DealDealer ==
    /\ pc = "deal_dealer"
    /\ LET t == take_card(shoe)
       IN  IF t.panic
           THEN pc' = "panic_out_of_cards" /\ UNCHANGED <<shoe, dealer_hand>>
           ELSE /\ shoe' = t.shoe
                /\ dealer_hand' = from_card(t.card[1])
                /\ pc' = "deal_player1"
    /\ UNCHANGED <<deck_count, reshuffle_limit, player_hand, dealer_face_down,
                   choice, outcome, hand, result, taken, round_start>>

\* play_round: player.new_hand(); player.hand.add_card(shoe.take_card())
DealPlayer1 ==
    /\ pc = "deal_player1"
    /\ LET t == take_card(shoe)
       IN  IF t.panic
           THEN /\ pc' = "panic_out_of_cards"
                /\ player_hand' = new_hand
                /\ UNCHANGED shoe
           ELSE /\ shoe' = t.shoe
                /\ player_hand' = add_card(new_hand, t.card[1])
                /\ pc' = "deal_face_down"
    /\ UNCHANGED <<deck_count, reshuffle_limit, dealer_hand, dealer_face_down,
                   choice, outcome, hand, result, taken, round_start>>

\* the mutant of DealFaceDown: the dealer's second card is dealt face up
DealFaceDown_mutant ==
    /\ pc = "deal_face_down"
    /\ LET t == take_card(shoe)
       IN  IF t.panic
           THEN pc' = "panic_out_of_cards" /\ UNCHANGED <<shoe, dealer_hand, dealer_face_down>>
           ELSE /\ shoe' = t.shoe
                /\ dealer_hand' = Append(dealer_hand, t.card[1])
                /\ dealer_face_down' = t.card
                /\ pc' = "deal_player2"
    /\ UNCHANGED <<deck_count, reshuffle_limit, player_hand,
                   choice, outcome, hand, result, taken, round_start>>

\* play_round: let dealer_face_down = shoe.take_card()
DealFaceDown ==
    /\ pc = "deal_face_down"
    /\ LET t == take_card(shoe)
       IN  IF t.panic
           THEN pc' = "panic_out_of_cards" /\ UNCHANGED <<shoe, dealer_face_down>>
           ELSE /\ shoe' = t.shoe
                /\ dealer_face_down' = t.card
                /\ pc' = "deal_player2"
    /\ UNCHANGED <<deck_count, reshuffle_limit, player_hand, dealer_hand,
                   choice, outcome, hand, result, taken, round_start>>

\* play_round: player.hand.add_card(shoe.take_card()), then player_turn
DealPlayer2 ==
    /\ pc = "deal_player2"
    /\ LET t == take_card(shoe)
       IN  IF t.panic
           THEN pc' = "panic_out_of_cards" /\ UNCHANGED <<shoe, player_hand>>
           ELSE /\ shoe' = t.shoe
                /\ player_hand' = add_card(player_hand, t.card[1])
                /\ pc' = "player_turn"
    /\ UNCHANGED <<deck_count, reshuffle_limit, dealer_hand, dealer_face_down,
                   choice, outcome, hand, result, taken, round_start>>

\* the mutant of player_turn_over: a hand at exactly 21 may still hit
player_turn_over_mutant(cards) == calc_value(cards) > TWENTY_ONE

\* player_turn: `if player.hand.calc_value() >= TWENTY_ONE`
player_turn_over(cards) == calc_value(cards) >= TWENTY_ONE

\* player_turn: the head of the outer loop; at 21 or more it returns, else
\* it goes on to read a choice
PlayerTurn ==
    /\ pc = "player_turn"
    /\ IF player_turn_over(player_hand)
       THEN pc' = "reveal"
       ELSE pc' = "prompt"
    /\ choice' = ""
    /\ UNCHANGED <<deck_count, reshuffle_limit, shoe, player_hand, dealer_hand,
                   dealer_face_down, outcome, hand, result, taken, round_start>>

\* player_turn: one pass of the inner loop, a line read and matched
ReadChoice ==
    /\ pc = "prompt"
    /\ \E line \in Lines :
          IF ~line.nl
          THEN /\ pc' = "panic_no_newline"
               /\ choice' = line.text
               /\ UNCHANGED <<shoe, player_hand>>
          ELSE /\ choice' = line.text
               /\ CASE line.text = "h" ->
                         LET t == take_card(shoe)
                         IN  IF t.panic
                             THEN /\ pc' = "panic_out_of_cards"
                                  /\ UNCHANGED <<shoe, player_hand>>
                             ELSE /\ shoe' = t.shoe
                                  /\ player_hand' = add_card(player_hand, t.card[1])
                                  /\ pc' = "player_turn"
                    [] line.text = "s" ->
                         /\ pc' = "reveal"
                         /\ UNCHANGED <<shoe, player_hand>>
                    [] OTHER ->
                         /\ pc' = "prompt"
                         /\ UNCHANGED <<shoe, player_hand>>
    /\ UNCHANGED <<deck_count, reshuffle_limit, dealer_hand, dealer_face_down,
                   outcome, hand, result, taken, round_start>>

\* the mutant of blackjack_result: the dealer's hand is not looked at
blackjack_result_mutant(dealer_cards) == "PlayerBlackjack"

\* play_round: what a player blackjack gets, by the line printed
blackjack_result(dealer_cards) ==
    IF is_blackjack(dealer_cards) THEN "BlackjackPush" ELSE "PlayerBlackjack"

\* play_round: the face-down card joins the dealer hand; a player blackjack
\* ends the round here
DealerReveal ==
    /\ pc = "reveal"
    /\ dealer_hand' = add_card(dealer_hand, dealer_face_down[1])
    /\ dealer_face_down' = <<>>
    /\ IF is_blackjack(player_hand)
       THEN /\ outcome' = blackjack_result(dealer_hand')
            /\ pc' = "round_end"
       ELSE /\ pc' = "dealer_turn"
            /\ UNCHANGED outcome
    /\ choice' = ""
    /\ UNCHANGED <<deck_count, reshuffle_limit, shoe, player_hand,
                   hand, result, taken, round_start>>

\* the mutant of dealer_stands: the dealer plays on to 21
dealer_stands_at_21(cards) == calc_value(cards) >= TWENTY_ONE

\* the mutant of dealer_stands: the dealer hits on 17
dealer_stands_mutant(cards) == calc_value(cards) > DEALER_STAND

\* dealer_turn: `if hand.calc_value() >= 17`
dealer_stands(cards) == calc_value(cards) >= DEALER_STAND

\* dealer_turn: one pass of its loop
DealerTurn ==
    /\ pc = "dealer_turn"
    /\ IF dealer_stands(dealer_hand)
       THEN pc' = "resolve" /\ UNCHANGED <<shoe, dealer_hand>>
       ELSE LET t == take_card(shoe)
            IN  IF t.panic
                THEN pc' = "panic_out_of_cards" /\ UNCHANGED <<shoe, dealer_hand>>
                ELSE /\ shoe' = t.shoe
                     /\ dealer_hand' = add_card(dealer_hand, t.card[1])
                     /\ pc' = "dealer_turn"
    /\ UNCHANGED <<deck_count, reshuffle_limit, player_hand, dealer_face_down,
                   choice, outcome, hand, result, taken, round_start>>

\* the mutant of round_result: the dealer's bust is looked at first
round_result_mutant(player_value, dealer_value) ==
    IF dealer_value > TWENTY_ONE THEN "DealerBust"
    ELSE IF player_value > TWENTY_ONE THEN "PlayerBust"
    ELSE IF player_value = dealer_value THEN "Push"
    ELSE IF dealer_value > player_value THEN "DealerWin"
    ELSE "PlayerWin"

\* play_round: the chain of checks on the two values, by the line it prints
round_result(player_value, dealer_value) ==
    IF player_value > TWENTY_ONE THEN "PlayerBust"
    ELSE IF dealer_value > TWENTY_ONE THEN "DealerBust"
    ELSE IF player_value = dealer_value THEN "Push"
    ELSE IF dealer_value > player_value THEN "DealerWin"
    ELSE "PlayerWin"

\* play_round: the values compared, the result printed
Resolve ==
    /\ pc = "resolve"
    /\ outcome' = round_result(calc_value(player_hand), calc_value(dealer_hand))
    /\ pc' = "round_end"
    /\ UNCHANGED <<deck_count, reshuffle_limit, shoe, player_hand, dealer_hand,
                   dealer_face_down, choice, hand, result, taken, round_start>>

\* the mutant of shoe_over: the comparison the wrong way round
shoe_over_mutant(s, limit) == num_cards(s) > limit

\* play_shoe: `if shoe.num_cards() < conf.reshuffle_limit`
shoe_over(s, limit) == num_cards(s) < limit

\* the mutant of RoundEnd: the counters start afresh with every round
RoundEnd_mutant ==
    /\ pc = "round_end"
    /\ dealer_hand' = <<>>
    /\ shoe' = [shoe EXCEPT !.running_count = 0]
    /\ IF shoe_over(shoe, reshuffle_limit)
       THEN pc' = "shoe_over"
       ELSE pc' = "place_bets"
    /\ UNCHANGED <<deck_count, reshuffle_limit, player_hand,
                   dealer_face_down, choice, outcome, hand, result, taken, round_start>>

\* play_shoe: after the round, another one unless the shoe is below the limit
RoundEnd ==
    /\ pc = "round_end"
    /\ dealer_hand' = <<>>
    /\ IF shoe_over(shoe, reshuffle_limit)
       THEN pc' = "shoe_over"
       ELSE pc' = "place_bets"
    /\ UNCHANGED <<deck_count, reshuffle_limit, shoe, player_hand,
                   dealer_face_down, choice, outcome, hand, result, taken, round_start>>

Next ==
    \/ Shuffle
    \/ PlaceBets
    \/ DealDealer
    \/ DealPlayer1
    \/ DealFaceDown
    \/ DealPlayer2
    \/ PlayerTurn
    \/ ReadChoice
    \/ DealerReveal
    \/ DealerTurn
    \/ Resolve
    \/ RoundEnd

Spec == Init /\ [][Next]_vars

\* the program run with the default reshuffle limit on a shoe of one deck or
\* more, by a scheduler that never stops a round while it has a step to
\* take: a sequential process, and a player who answers the prompt
InitFair ==
    /\ Init
    /\ deck_count \in 1..MaxDecks
    /\ reshuffle_limit = DEFAULT_RESHUFFLE_LIMIT

\* the steps of play_round
RoundNext ==
    \/ DealDealer
    \/ DealPlayer1
    \/ DealFaceDown
    \/ DealPlayer2
    \/ PlayerTurn
    \/ ReadChoice
    \/ DealerReveal
    \/ DealerTurn
    \/ Resolve

SpecFair == InitFair /\ [][Next]_vars /\ WF_vars(RoundNext)

(***************************************************************************)
(* SpecHand: a Hand built by from_card and add_card, then valued           *)
(***************************************************************************)
\* the values of the cards SpecHand builds hands of: all of enum Value
HandValues == {ValueTryFrom(n).value : n \in 2..14}

\* the place of a value in enum Value
RankIndex(v) == CHOOSE n \in 2..14 : ValueTryFrom(n).value = v

InitHand ==
    /\ deck_count = 0
    /\ shoe = Shoe_new(0).shoe
    /\ pc = "hand"
    /\ idleGame
    /\ idleHand
    /\ idleTaken

\* Hand::from_card on no hand yet, Hand::add_card on a hand.  The first two
\* cards come in any order, the later ones in the order of enum Value, so
\* that every multiset of values is built (calc_value filters, counts and
\* sums: it does not look at the order).
HandAddCard ==
    /\ pc = "hand"
    /\ ~result.done
    /\ Len(hand) < MaxHandLen
    /\ \E v \in HandValues, s \in {"Spades", "Hearts"} :
          /\ s = "Hearts" => v = "Ace"
          /\ Len(hand) >= 2 => RankIndex(v) >= RankIndex(hand[Len(hand)].value)
          /\ hand' = IF hand = <<>> THEN from_card(Card(s, v))
                     ELSE add_card(hand, Card(s, v))
    /\ UNCHANGED <<gameVars, shoe, pc, result, taken>>

\* Hand::calc_value and Hand::is_blackjack on the hand as built
HandEvaluate ==
    /\ pc = "hand"
    /\ ~result.done
    /\ result' = [done |-> TRUE, value |-> calc_value(hand),
                  blackjack |-> is_blackjack(hand)]
    /\ UNCHANGED <<gameVars, shoe, pc, hand, taken>>

NextHand == HandAddCard \/ HandEvaluate

SpecHand == InitHand /\ [][NextHand]_vars

(***************************************************************************)
(* SpecShoe: a Shoe built by Shoe::new, then take_card and shuffle called  *)
(* on it in any order                                                      *)
(***************************************************************************)
\* the orders a shuffle of SpecShoe may give
ShoeShuffleOutcomes(cards) ==
    ShuffleOutcomes(cards, ShoeTopLen) \cup {Reverse(cards)}

InitShoe ==
    /\ deck_count \in (0..MaxDecks) \cup {DEFAULT_DECK_COUNT}
    /\ shoe = Shoe_new(deck_count).shoe
    /\ pc = IF Shoe_new(deck_count).ok THEN "shoe" ELSE "panic_create_shoe"
    /\ idleGame
    /\ idleHand
    /\ idleTaken

\* let card = shoe.take_card()
ShoeTakeCard ==
    /\ pc = "shoe"
    /\ taken.calls < MaxShoeDraws
    /\ LET t == take_card(shoe)
       IN  /\ shoe' = t.shoe
           /\ taken' = [taken EXCEPT !.calls = @ + 1, !.panic = t.panic,
                                     !.card = t.card]
           /\ pc' = IF t.panic THEN "panic_out_of_cards" ELSE "shoe"
    /\ UNCHANGED <<gameVars, hand, result>>

\* let shoe = shoe.shuffle()
ShoeShuffle ==
    /\ pc = "shoe"
    /\ taken.shuffles < MaxShuffles
    /\ \E new_cards \in ShoeShuffleOutcomes(shoe.cards) :
          shoe' = shuffle(shoe, new_cards)
    /\ taken' = [taken EXCEPT !.shuffles = @ + 1, !.card = <<>>]
    /\ UNCHANGED <<gameVars, pc, hand, result>>

NextShoe == ShoeTakeCard \/ ShoeShuffle

SpecShoe == InitShoe /\ [][NextShoe]_vars

(***************************************************************************)
(* The claims                                                              *)
(***************************************************************************)
\* the ranks by what the rules say of them
TenValued == {"Ten", "Jack", "Queen", "King"}
PipRanks == <<"Two", "Three", "Four", "Five", "Six", "Seven", "Eight", "Nine", "Ten">>
AllRanks == {PipRanks[i] : i \in DOMAIN PipRanks} \cup {"Jack", "Queen", "King", "Ace"}

\* the fixed value of a card that is no ace: its pips, 10 for a court card
FaceValue(v) ==
    IF v \in {"Jack", "Queen", "King"} THEN 10
    ELSE 1 + CHOOSE i \in DOMAIN PipRanks : PipRanks[i] = v

NumAces(cards) == Cardinality({i \in DOMAIN cards : cards[i].value = "Ace"})

\* every total of cards with each ace counted as 1 or as 11
Totals(cards) ==
    {SumSeq([i \in DOMAIN cards |->
               IF cards[i].value = "Ace" THEN f[i] ELSE FaceValue(cards[i].value)]) :
        f \in [DOMAIN cards -> {1, 11}]}

Min(S) == CHOOSE x \in S : \A y \in S : x <= y

\* C1: calc_value returns the greatest total not above 21 that counting each
\* ace as 11 or 1 can give, and when every such total is above 21 the
\* all-aces-as-1 total as it is; a hand without aces scores the sum of its
\* card values, the empty hand 0.
C1_CalcValueBestTotal ==
    result.done =>
        LET T == Totals(hand)
            ok == {t \in T : t <= 21}
        IN  /\ ok # {} => result.value = Max(ok)
            /\ ok = {} => result.value = Min(T) /\ result.value > 21
            /\ NumAces(hand) = 0 =>
                 result.value = SumSeq([i \in DOMAIN hand |-> FaceValue(hand[i].value)])
            /\ hand = <<>> => result.value = 0

\* four aces and a ten, valued 14 with every ace low
C1_Witness ==
    /\ result.done
    /\ Len(hand) = 5
    /\ NumAces(hand) = 4
    /\ \E i \in DOMAIN hand : hand[i].value = "Ten"
    /\ result.value = 14

\* a natural: two cards, one an ace and the other worth ten
IsNatural(cards) ==
    /\ Len(cards) = 2
    /\ \E i, j \in {1, 2} :
          i # j /\ cards[i].value = "Ace" /\ cards[j].value \in TenValued

\* C2: is_blackjack is true exactly of the hands of 2 cards with exactly 1
\* ace and a value of 21, which are the hands of one ace and one ten-valued
\* card in either order; no hand of 3 or more cards is a blackjack.
C2_IsBlackjackIffNatural ==
    result.done =>
        /\ result.blackjack <=>
             (Len(hand) = 2 /\ NumAces(hand) = 1 /\ result.value = 21)
        /\ result.blackjack <=> IsNatural(hand)
        /\ Len(hand) >= 3 => ~result.blackjack

\* a ten-valued card first and the ace second: a blackjack
C2_Witness ==
    /\ result.done
    /\ result.blackjack
    /\ Len(hand) = 2
    /\ hand[1].value = "King"
    /\ hand[2].value = "Ace"

\* the round has resolved and its result line is printed
Resolved == pc = "round_end"

\* C3: a round that resolves without a player natural has the outcome the
\* final hand values give in this order: player over 21, PlayerBust (the
\* dealer may be over 21 too); else dealer over 21, DealerBust; else equal
\* values, Push; else the higher value wins.  One outcome, always.
C3_OutcomePrecedence ==
    (Resolved /\ ~IsNatural(player_hand)) =>
        LET p == calc_value(player_hand)
            d == calc_value(dealer_hand)
        IN  /\ p > 21 => outcome = "PlayerBust"
            /\ (p <= 21 /\ d > 21) => outcome = "DealerBust"
            /\ (p <= 21 /\ d <= 21 /\ p = d) => outcome = "Push"
            /\ (p <= 21 /\ d <= 21 /\ d > p) => outcome = "DealerWin"
            /\ (p <= 21 /\ d <= 21 /\ p > d) => outcome = "PlayerWin"
            /\ outcome \in {"PlayerBust", "DealerBust", "Push", "DealerWin",
                            "PlayerWin"}

\* both hands over 21 and the round goes to the dealer
C3_Witness ==
    /\ Resolved
    /\ calc_value(player_hand) > 21
    /\ calc_value(dealer_hand) > 21
    /\ outcome = "PlayerBust"

\* C4: when the player's two cards are a natural the round resolves at the
\* reveal: BlackjackPush if the dealer's two cards are a natural too, else
\* PlayerBlackjack; the dealer draws no card in that round, and only a
\* natural of the player gets one of these two outcomes.
C4_NaturalResolvesAtReveal ==
    /\ (Resolved /\ IsNatural(player_hand)) =>
          /\ Len(dealer_hand) = 2
          /\ outcome = IF IsNatural(dealer_hand) THEN "BlackjackPush"
                       ELSE "PlayerBlackjack"
    /\ (Resolved /\ outcome \in {"BlackjackPush", "PlayerBlackjack"}) =>
          IsNatural(player_hand)
    /\ pc \in {"dealer_turn", "resolve"} => ~IsNatural(player_hand)

\* natural against natural
C4_Witness ==
    /\ Resolved
    /\ IsNatural(player_hand)
    /\ IsNatural(dealer_hand)
    /\ outcome = "BlackjackPush"

Front(q) == SubSeq(q, 1, Len(q) - 1)
Last(q) == q[Len(q)]

\* the step moves the top card of the shoe to the end of the hand h (h' after)
MovesTopCard(h, hAfter) ==
    /\ shoe.cards # <<>>
    /\ hAfter = Append(h, Last(shoe.cards))
    /\ shoe'.cards = Front(shoe.cards)

\* C5: in dealer_turn a dealer hand below 17 (16, say) always takes another
\* card from the shoe (which, on an empty shoe, is take_card's failure) and
\* a hand at 17 or above, a soft 17 too, never does; dealer_turn returns
\* only with a hand of 17 or more.
C5_DealerPolicy ==
    [][ /\ pc = "dealer_turn" =>
             IF calc_value(dealer_hand) < 17
             THEN \/ MovesTopCard(dealer_hand, dealer_hand') /\ pc' = "dealer_turn"
                  \/ /\ shoe.cards = <<>>
                     /\ pc' = "panic_out_of_cards"
                     /\ dealer_hand' = dealer_hand
                     /\ shoe' = shoe
             ELSE dealer_hand' = dealer_hand /\ shoe' = shoe /\ pc' = "resolve"
        /\ (pc = "dealer_turn" /\ pc' # "dealer_turn" /\ pc' # "panic_out_of_cards") =>
             calc_value(dealer_hand') >= 17
        /\ (pc \notin {"deal_dealer", "reveal"} /\ Len(dealer_hand') > Len(dealer_hand)) =>
             (pc = "dealer_turn" /\ calc_value(dealer_hand) < 17)
      ]_vars

\* the dealer drew on a soft 16 (ace, 5), got an ace, and stood on the soft 17
C5_Witness ==
    /\ pc = "resolve"
    /\ Len(dealer_hand) = 3
    /\ dealer_hand[1].value = "Ace"
    /\ dealer_hand[2].value = "Five"
    /\ dealer_hand[3].value = "Ace"
    /\ calc_value(dealer_hand) = 17

\* C6: in the player's turn a card comes into the player hand only by a hit
\* taken below 21, each hit moving the one top card of the shoe to the hand;
\* at 21 or more the turn ends with no decision read; a stand ends the turn
\* with the hand and the shoe as they were.
C6_PlayerTurn ==
    [][ /\ pc = "player_turn" =>
             /\ player_hand' = player_hand
             /\ shoe' = shoe
             /\ pc' = IF calc_value(player_hand) >= 21 THEN "reveal" ELSE "prompt"
        /\ pc = "prompt" =>
             /\ calc_value(player_hand) < 21
             /\ (player_hand' # player_hand \/ shoe' # shoe) =>
                  /\ choice' = "h"
                  /\ MovesTopCard(player_hand, player_hand')
                  /\ shoe'.cards # shoe.cards
                  /\ pc' = "player_turn"
             /\ (choice' = "h" /\ pc' \notin {"panic_no_newline", "panic_out_of_cards"}) =>
                  MovesTopCard(player_hand, player_hand')
             /\ choice' = "s" =>
                  /\ pc' = "reveal"
                  /\ player_hand' = player_hand
                  /\ shoe' = shoe
      ]_vars

\* the player hit to exactly 21 and the turn is over
C6_Witness ==
    /\ pc = "reveal"
    /\ Len(player_hand) >= 3
    /\ calc_value(player_hand) = 21

\* the count a card of rank v is worth to the counter
CountChange(v) ==
    IF v \in {"Two", "Three", "Four", "Five", "Six"} THEN 1
    ELSE IF v \in {"Seven", "Eight", "Nine"} THEN 0
    ELSE -1

\* C7: every take_card changes running_count once: by +1 for a 2 to 6, by 0
\* for a 7 to 9, by -1 for a 10, Jack, Queen, King or Ace; and nothing but a
\* take_card changes it while the shoe is in play.
C7_RunningCountPerDraw ==
    [][ pc # "shuffle" =>
          /\ shoe'.cards # shoe.cards =>
               /\ shoe.cards # <<>>
               /\ shoe'.cards = Front(shoe.cards)
               /\ shoe'.running_count =
                    shoe.running_count + CountChange(Last(shoe.cards).value)
          /\ shoe'.cards = shoe.cards => shoe'.running_count = shoe.running_count
      ]_vars

\* an ace, a 7 and a 2 drawn: -1, 0 and +1
C7_Witness ==
    /\ pc = "deal_player2"
    /\ dealer_hand = <<Card("Spades", "Ace")>>
    /\ player_hand = <<Card("Spades", "Seven")>>
    /\ dealer_face_down = <<Card("Spades", "Two")>>
    /\ shoe.running_count = 0

\* the shoe as Shoe::new returned it
FreshShoe == pc = "shoe" /\ taken.calls = 0 /\ taken.shuffles = 0

\* C8: Shoe::new(N), N >= 1, gives 52*N cards, each of the 52 pairs of rank
\* and suit N times, and both counters 0; 312 cards for N = 6.
C8_ShoeNew ==
    (FreshShoe /\ deck_count >= 1) =>
        /\ Len(shoe.cards) = 52 * deck_count
        /\ \A s \in {"Spades", "Hearts", "Diamonds", "Clubs"}, v \in AllRanks :
              Cardinality({i \in DOMAIN shoe.cards : shoe.cards[i] = Card(s, v)})
                = deck_count
        /\ shoe.running_count = 0
        /\ shoe.true_count = F32(0)
        /\ deck_count = 6 => Len(shoe.cards) = 312

\* the six decks of the default
C8_Witness ==
    /\ FreshShoe
    /\ deck_count = 6
    /\ Len(shoe.cards) = 312

\* C9: shuffle keeps the multiset of the cards, and so their number, and
\* sets running_count and true_count to 0 whatever they were.
C9_ShufflePreserves ==
    [][ taken'.shuffles = taken.shuffles + 1 =>
          /\ BagOfSeq(shoe'.cards) = BagOfSeq(shoe.cards)
          /\ Len(shoe'.cards) = Len(shoe.cards)
          /\ shoe'.running_count = 0
          /\ shoe'.true_count = F32(0)
      ]_vars

\* shuffled after two draws (the count was not 0), into another order
C9_Witness ==
    /\ pc = "shoe"
    /\ taken.shuffles = 1
    /\ taken.calls = 2
    /\ taken.card = <<>>
    /\ deck_count = 1
    /\ Len(shoe.cards) = 50
    /\ Last(shoe.cards).value = "Two"
    /\ shoe.running_count = 0

\* C10: take_card on an empty shoe hands its caller a failure value: no
\* card, the shoe as it was, and the caller goes on.
C10_EmptyShoeIsFailureValue ==
    [][ (pc = "shoe" /\ shoe.cards = <<>> /\ taken'.calls = taken.calls + 1) =>
          /\ taken'.card = <<>>
          /\ shoe' = shoe
          /\ ~taken'.panic
          /\ pc' = "shoe"
      ]_vars

\* C11: a shoe of deck_count = 0 is rejected (InvalidConfiguration): main
\* does not go on with an empty shoe.
C11_ZeroDecksRejected ==
    deck_count = 0 => pc = "panic_create_shoe"

\* C12: the divisor of the true count is never zero (at least 1 deck, or
\* another stated policy), so true_count is never the quotient of a
\* division by zero.
C12_TrueCountDivisorNonzero ==
    shoe.true_count.class = "finite"

C14_InvalidInputNoTransition ==
    [][ (pc = "prompt" /\ choice' \notin {"h", "s"}) =>
          /\ pc' = "prompt"
          /\ UNCHANGED <<shoe, player_hand, dealer_hand, dealer_face_down>>
      ]_vars

\* the k-th card play_round drew: the shoe is drawn from the end of the Vec
Drawn(k) == round_start[Len(round_start) + 1 - k]

\* C15: the deal takes four cards from the top of the shoe in the order
\* dealer (face up), player, dealer (face down), player: after it the
\* dealer's hand is the 1st card drawn alone, the player's hand the 2nd and
\* the 4th, and the 3rd is held apart until the player's turn is over and is
\* the dealer's second card from the reveal on.
C15_DealOrder ==
    /\ pc \in {"deal_player1", "deal_face_down"} =>
          /\ dealer_hand = <<Drawn(1)>>
          /\ dealer_face_down = <<>>
    /\ pc = "deal_player1" => Len(shoe.cards) = Len(round_start) - 1
    /\ pc = "deal_face_down" =>
          /\ player_hand = <<Drawn(2)>>
          /\ Len(shoe.cards) = Len(round_start) - 2
    /\ pc = "deal_player2" =>
          /\ player_hand = <<Drawn(2)>>
          /\ Len(shoe.cards) = Len(round_start) - 3
    /\ pc \in {"deal_player2", "player_turn", "prompt", "reveal"} =>
          /\ dealer_hand = <<Drawn(1)>>
          /\ dealer_face_down = <<Drawn(3)>>
    /\ pc \in {"player_turn", "prompt", "reveal", "dealer_turn", "resolve",
               "round_end"} =>
          /\ Len(player_hand) >= 2
          /\ SubSeq(player_hand, 1, 2) = <<Drawn(2), Drawn(4)>>
          /\ Len(player_hand) = 2 =>
                Len(shoe.cards) = Len(round_start) - 2 - Len(dealer_hand)
                                    - Len(dealer_face_down)
    /\ pc \in {"dealer_turn", "resolve", "round_end"} =>
          /\ Len(dealer_hand) >= 2
          /\ SubSeq(dealer_hand, 1, 2) = <<Drawn(1), Drawn(3)>>
          /\ dealer_face_down = <<>>

\* a round of a two-deck shoe in which the player has hit and the hidden
\* card has been revealed; the four cards dealt are of four different ranks
C15_Witness ==
    /\ pc = "dealer_turn"
    /\ Len(round_start) = 104
    /\ Len(player_hand) = 3
    /\ Len(dealer_hand) = 2
    /\ dealer_hand[1].value = "Two"
    /\ player_hand[1].value = "Six"
    /\ dealer_hand[2].value = "Five"
    /\ player_hand[2].value = "Seven"

\* the total of a hand with every ace counted as 1
HardTotal(cards) ==
    SumSeq([i \in DOMAIN cards |->
              IF cards[i].value = "Ace" THEN 1 ELSE FaceValue(cards[i].value)])

\* the points of play_round, in the order it passes them
RoundPcs == {"deal_dealer", "deal_player1", "deal_face_down", "deal_player2",
             "player_turn", "prompt", "reveal", "dealer_turn", "resolve"}

Panics == {"panic_out_of_cards", "panic_no_newline"}

\* a bound on the steps play_round has left: the phases in order, and within
\* the two turns what the hand may still gain before it has to stop
Rank ==
    CASE pc = "deal_dealer" -> 500
      [] pc = "deal_player1" -> 400
      [] pc = "deal_face_down" -> 300
      [] pc = "deal_player2" -> 200
      [] pc = "player_turn" -> 100 + 2 * (31 - HardTotal(player_hand)) + 1
      [] pc = "prompt" -> 100 + 2 * (31 - HardTotal(player_hand))
      [] pc = "reveal" -> 90
      [] pc = "dealer_turn" -> 10 + (27 - HardTotal(dealer_hand))
      [] pc = "resolve" -> 5
      [] OTHER -> 0

\* a step of a round: into a panic, the re-prompt after an invalid line, or
\* one that brings the round nearer its end
RoundStep ==
    pc \in RoundPcs =>
        \/ pc' \in Panics
        \/ /\ pc = "prompt" /\ pc' = "prompt" /\ choice' \notin {"h", "s"}
           /\ UNCHANGED <<shoe, player_hand, dealer_hand, dealer_face_down, outcome>>
        \/ /\ pc' \in RoundPcs \cup {"round_end"}
           /\ Rank' < Rank
           /\ Rank' >= 0

\* the player draws only below 21, one card that raises the ace-low total
PlayerDraw ==
    (pc \in {"player_turn", "prompt"} /\ player_hand' # player_hand) =>
        /\ calc_value(player_hand) < 21
        /\ Len(player_hand') = Len(player_hand) + 1
        /\ HardTotal(player_hand') > HardTotal(player_hand)
        /\ HardTotal(player_hand') <= 30

\* the dealer draws only below 17, one card that raises the ace-low total
DealerDraw ==
    (pc = "dealer_turn" /\ dealer_hand' # dealer_hand) =>
        /\ calc_value(dealer_hand) < 17
        /\ Len(dealer_hand') = Len(dealer_hand) + 1
        /\ HardTotal(dealer_hand') > HardTotal(dealer_hand)
        /\ HardTotal(dealer_hand') <= 26

\* the outcome is cleared when the bets are placed and set once, as the
\* round ends
OutcomeOnce ==
    outcome' # outcome =>
        \/ pc = "place_bets" /\ outcome' = "None"
        \/ pc \in {"reveal", "resolve"} /\ outcome = "None" /\ pc' = "round_end"

\* C16: every round ends resolved.  With a shoe that does not run out (one
\* deck or more, the default reshuffle limit), each step of a round other
\* than the re-prompt after an invalid line brings it nearer its end; the
\* player draws only below 21 and the dealer only below 17, each draw raising
\* the hand's ace-low total, so the draws are bounded; the outcome is set
\* once, as the round ends; and a round once begun does end resolved with
\* one outcome, unless the input ends at the prompt.
C16_RoundTerminates ==
    /\ [][RoundStep]_vars
    /\ [][PlayerDraw]_vars
    /\ [][DealerDraw]_vars
    /\ [][OutcomeOnce]_vars
    /\ [](pc \in RoundPcs => outcome = "None")
    /\ [](pc = "round_end" => outcome # "None")
    /\ (pc = "deal_dealer" ~> pc \in {"round_end", "panic_no_newline"})

\* a round resolved after the player drew twice and the dealer three times
C16_Witness ==
    /\ pc = "round_end"
    /\ outcome \notin {"None", "BlackjackPush", "PlayerBlackjack"}
    /\ Len(player_hand) >= 4
    /\ Len(dealer_hand) >= 4

\* C17: with one deck or more and the default reshuffle limit of 52, over
\* every run of rounds and every sequence of decisions take_card is never
\* called on an empty shoe; a round starts with 52 cards or more.
C17_NeverDrawsFromEmptyShoe ==
    (deck_count >= 1 /\ reshuffle_limit = 52) =>
        /\ pc # "panic_out_of_cards"
        /\ pc \in {"place_bets", "deal_dealer"} => Len(shoe.cards) >= 52
        /\ pc \in RoundPcs => Len(round_start) >= 52

\* a later round of a two-deck shoe, begun with exactly 52 cards, in which
\* both hands drew
C17_Witness ==
    /\ deck_count = 2
    /\ reshuffle_limit = 52
    /\ pc = "round_end"
    /\ Len(round_start) = 52
    /\ Len(player_hand) >= 3
    /\ Len(dealer_hand) >= 3

\* the player's hand of the round under way: play_round takes the dealer's
\* first card before player.new_hand() starts it
RoundPlayerHand ==
    IF pc \in {"deal_dealer", "deal_player1"} THEN <<>> ELSE player_hand

\* the cards of the round that are out of the shoe
RoundHeld == RoundPlayerHand \o dealer_hand \o dealer_face_down

\* the cards of the round, wherever they are
RoundCards == shoe.cards \o RoundHeld

\* what is left in the shoe is the shoe of the start of the round less the
\* cards at its draw end, and those are, as a multiset, the cards held: the
\* shoe and the cards held together are the shoe of the start of the round
Conserved ==
    /\ Len(shoe.cards) <= Len(round_start)
    /\ shoe.cards = SubSeq(round_start, 1, Len(shoe.cards))
    /\ BagOfSeq(RoundHeld) =
         BagOfSeq(SubSeq(round_start, Len(shoe.cards) + 1, Len(round_start)))

\* a hand after the step is the hand before it, or that with one card
\* appended, and then the card is the one the shoe lost
GrowsByAppending(before, after) ==
    \/ after = before
    \/ /\ Len(after) = Len(before) + 1
       /\ SubSeq(after, 1, Len(before)) = before
       /\ Len(shoe.cards) > 0
       /\ Last(after) = Last(shoe.cards)
       /\ shoe'.cards = Front(shoe.cards)

\* a step within a round: the shoe keeps its cards or loses its last one, and
\* each hand keeps its cards in place or has the card drawn appended
CardsMove ==
    (pc \in RoundPcs /\ pc' \in RoundPcs \cup {"round_end"}) =>
        /\ \/ shoe'.cards = shoe.cards
           \/ Len(shoe.cards) > 0 /\ shoe'.cards = Front(shoe.cards)
        /\ pc # "deal_player1" => GrowsByAppending(player_hand, player_hand')
        /\ pc = "deal_player1" => GrowsByAppending(<<>>, player_hand')
        /\ pc # "deal_dealer" /\ pc # "reveal" => GrowsByAppending(dealer_hand, dealer_hand')
        /\ pc = "deal_dealer" => GrowsByAppending(<<>>, dealer_hand')
        /\ pc = "reveal" =>
              /\ dealer_hand' = dealer_hand \o dealer_face_down
              /\ dealer_face_down' = <<>>
              /\ shoe' = shoe
        /\ Len(RoundCards') = Len(RoundCards)

LowRanks == {"Two", "Three", "Four", "Five", "Six"}
HighRanks == {"Ten", "Jack", "Queen", "King", "Ace"}

\* how many cards of the ranks R are in cards
CountOf(cards, R) == Cardinality({i \in DOMAIN cards : cards[i].value \in R})

\* C19: the running count goes on across rounds: in every state of a game
\* it is the number of cards of ranks 2 to 6 drawn since the shoe was built
\* less the number of tens, court cards and aces drawn, whatever rounds
\* have gone by; so it is never more than 20 * N either way for N decks, and
\* it is 0 when all 52 * N cards are drawn.  (A deck holds 20 cards of the
\* low ranks and 20 of the high.)
C19_RunningCountPersists ==
    LET lowDrawn == 20 * deck_count - CountOf(shoe.cards, LowRanks)
        highDrawn == 20 * deck_count - CountOf(shoe.cards, HighRanks)
    IN  /\ lowDrawn >= 0
        /\ highDrawn >= 0
        /\ shoe.running_count = lowDrawn - highDrawn
        /\ shoe.running_count <= 20 * deck_count
        /\ shoe.running_count >= -(20 * deck_count)
        /\ shoe.cards = <<>> => shoe.running_count = 0

\* a one-deck shoe drawn empty over several rounds, the count back at 0
C19_Witness ==
    /\ deck_count = 1
    /\ shoe.cards = <<>>
    /\ shoe.running_count = 0
    /\ Len(round_start) > 0
    /\ Len(round_start) < 40

\* the hand counts an ace as 11
Soft(cards) == calc_value(cards) <= 21 /\ calc_value(cards) # HardTotal(cards)

\* C20: bust is absorbing under add_card: a hand valued above 21 is valued
\* above 21 with any card appended.  calc_value itself is not monotone: a
\* card appended to a soft hand of 12 or more that would take it over 21
\* turns the ace low, and the value stays (a ten) or falls (a lesser card).
C20_BustAbsorbing ==
    result.done =>
        /\ result.value > 21 =>
              \A v \in AllRanks, su \in {all_suites[i] : i \in DOMAIN all_suites} :
                  calc_value(add_card(hand, Card(su, v))) > 21
        /\ (Soft(hand) /\ result.value >= 12) =>
              \A v \in AllRanks \ {"Ace"} :
                  result.value + FaceValue(v) > 21 =>
                      /\ calc_value(add_card(hand, Card("Spades", v)))
                           = result.value - 10 + FaceValue(v)
                      /\ calc_value(add_card(hand, Card("Spades", v)))
                           <= result.value

\* a busted hand that holds an ace, already counted low
C20_Witness ==
    /\ result.done
    /\ result.value = 22
    /\ NumAces(hand) >= 1
    /\ Len(hand) = 4

====
